---- MODULE Spec2Model ----
(***************************************************************************)
(* Model of the data layer of src/app.py: the employees and salaries       *)
(* collections and the operations register_employee,                       *)
(* update_employee_record, archive_employee, process_payroll_transaction,  *)
(* fetch_employees and fetch_payroll_history.                              *)
(*                                                                         *)
(* Every database round trip is one atomic step (single-document           *)
(* atomicity of the store).  register_employee and                         *)
(* process_payroll_transaction make two round trips (find_one, then        *)
(* insert_one), so they are two steps of the calling session and other     *)
(* sessions may run in between.                                            *)
(*                                                                         *)
(* The store is taken to be reachable (get_db_connection returns a client) *)
(* and to fail an insert or update only with a duplicate-key error.  The   *)
(* unique indexes are those of the storage schema: one on employees.email, *)
(* one on salaries.(employeeId, month), none on employees.employeeId.      *)
(***************************************************************************)
EXTENDS Integers, Sequences, FiniteSets, Bags, TLC

\* ---------------------------------------------------------------- bounds
\* Most transactions the salaries collection is let grow to.
MaxSalaries == 2

\* ------------------------------------------------------- input domains
\* the browser sessions that can have a call under way at the same time
Sessions == {"s1", "s2"}
EmployeeIds == {"E1", "E2"}
Emails == {"a@x", "b@x"}
\* the name and designation typed into a form
Details == {[name |-> "Ann", role |-> "dev"], [name |-> "Bob", role |-> "ops"]}
\* the same, for the runs with overlapping calls
SessionDetails == {[name |-> "Ann", role |-> "dev"]}
Months == {"2024-01", "2024-02"}
\* amounts as the number_input widget hands them over
Amounts == {[type |-> "int", val |-> 100]}

\* A string handed to ObjectId(): wf says whether it is a well-formed
\* 24-digit hexadecimal string, n is the ObjectId it denotes.
Uids == [wf : {TRUE}, n : 1..2] \cup {[wf |-> FALSE, n |-> 0]}

\* ------------------------------------------------------ storage schema
\* unique index on employees.email
EmailUniqueIndex == TRUE
\* unique compound index on salaries.(employeeId, month)
SalaryUniqueIndex == TRUE

VARIABLES
    employees,  \* db["employees"], in natural (insertion) order
    salaries,   \* db["salaries"], in natural (insertion) order
    inflight,   \* bag of the calls that are between find_one and insert_one
    last        \* the value returned by the call that returned last

vars == <<employees, salaries, inflight, last>>

\* ----------------------------------------------------------- messages
MsgIdInUse == <<"Employee ID is already in use.">>
MsgRegistered == <<"Employee registered successfully.">>
MsgDuplicateEmail == <<"This email address is already registered.">>
MsgNotFound == <<"Employee record not found.">>
MsgProcessed == <<"Transaction processed successfully.">>
MsgDuplicatePayment(month) ==
    <<"Salary for ", month, " has already been processed for this employee.">>
NoMsg == <<>>

Response(op, ok, msg) == [op |-> op, ok |-> ok, msg |-> msg]

\* ------------------------------------------------------------ helpers
\* str(doc["_id"])
Str(oid) == [wf |-> TRUE, n |-> oid]

\* ObjectId(uid): 0 stands for the InvalidId exception
ObjectId(uid) == IF uid.wf THEN uid.n ELSE 0

\* float(amount)
Float(amount) == [type |-> "float", val |-> amount.val]

\* datetime.now(): logical time, the number of employees registered so far
Now == Len(employees)

\* the _id the driver gives to the next inserted document
NewObjectId(coll) == Len(coll) + 1

\* find_one that only sees Active documents
FindOneActive(coll, emp_id) ==
    LET m == {i \in 1..Len(coll) :
                 coll[i].employeeId = emp_id /\ coll[i].status = "Active"}
    IN IF m = {} THEN 0 ELSE CHOOSE i \in m : \A j \in m : i <= j

\* find_one whose filter is lost: the first document of the collection
FindOneAny(coll, emp_id) == IF Len(coll) = 0 THEN 0 ELSE 1

\* find_one({"employeeId": emp_id}): position of the first match in natural
\* order, 0 for None
FindOne(coll, emp_id) ==
    IF \E i \in 1..Len(coll) : coll[i].employeeId = emp_id
    THEN CHOOSE i \in 1..Len(coll) :
            /\ coll[i].employeeId = emp_id
            /\ \A j \in 1..(i - 1) : coll[j].employeeId # emp_id
    ELSE 0

\* position of the document with the given _id, 0 when there is none
FindById(coll, oid) ==
    IF \E i \in 1..Len(coll) : coll[i]._id = oid
    THEN CHOOSE i \in 1..Len(coll) : coll[i]._id = oid
    ELSE 0

\* insert_one into employees raises "duplicate key"
EmployeeDuplicateKey(coll, doc) ==
    EmailUniqueIndex /\ \E i \in 1..Len(coll) : coll[i].email = doc.email

\* update_one on employees raises "duplicate key": another document holds
\* the new email
UpdateDuplicateKey(coll, i, email) ==
    EmailUniqueIndex /\ \E j \in 1..Len(coll) : j # i /\ coll[j].email = email

\* insert_one into salaries raises "duplicate key"
SalaryDuplicateKey(coll, doc) ==
    SalaryUniqueIndex /\
    \E i \in 1..Len(coll) :
        coll[i].employeeId = doc.employeeId /\ coll[i].month = doc.month

\* a $set that also writes status back to Active
SetDetailsReactivates(doc, name, email, role) ==
    [doc EXCEPT !.name = name, !.email = email, !.designation = role,
                !.status = "Active"]

\* {"$set": {"name": name, "email": email, "designation": role}}
SetDetails(doc, name, email, role) ==
    [doc EXCEPT !.name = name, !.email = email, !.designation = role]

\* a status switch in place of the $set
SetInactiveToggle(doc) ==
    [doc EXCEPT !.status = IF @ = "Active" THEN "Inactive" ELSE "Active"]

\* {"$set": {"status": "Inactive"}}
SetInactive(doc) == [doc EXCEPT !.status = "Inactive"]

\* the employees collection after archive_employee's update_one on oid
ArchiveDocs(coll, oid) ==
    [i \in 1..Len(coll) |->
        IF coll[i]._id = oid THEN SetInactive(coll[i]) ELSE coll[i]]

\* fetch_employees(active_only): documents with _id turned into a string
fetch_employees(active_only) ==
    LET sel == SelectSeq(employees,
                   LAMBDA d : (~active_only) \/ d.status = "Active")
    IN [i \in 1..Len(sel) |-> [sel[i] EXCEPT !._id = Str(sel[i]._id)]]

\* fetch_payroll_history(month): "" stands for a falsy month
fetch_payroll_history(month) ==
    LET sel == SelectSeq(salaries, LAMBDA d : month = "" \/ d.month = month)
    IN [i \in 1..Len(sel) |-> [sel[i] EXCEPT !._id = Str(sel[i]._id)]]

\* ----------------------------------------------------------------- Init
Init ==
    /\ employees = <<>>
    /\ salaries = <<>>
    /\ inflight = EmptyBag
    /\ last = Response("none", TRUE, NoMsg)

\* -------------------------------------------------------------- actions
\* a session is free to start a call
SessionFree == BagCardinality(inflight) < Cardinality(Sessions)

\* no call is under way
Serialized == inflight = EmptyBag

\* the calls of the given kind that wait for their insert_one
Waiting(kind) == {r \in BagToSet(inflight) : r.kind = kind}

\* new_record of register_employee
NewRecord(emp_id, name, email, role) ==
    [kind |-> "employee",
     employeeId |-> emp_id,
     name |-> name,
     email |-> email,
     designation |-> role,
     status |-> "Active",
     joinedDate |-> Now]

\* register_employee, first round trip: find_one and building new_record
RegisterCheck(emp_id, name, email, role) ==
    /\ SessionFree
    /\ IF FindOne(employees, emp_id) # 0
       THEN /\ last' = Response("register", FALSE, MsgIdInUse)
            /\ UNCHANGED inflight
       ELSE /\ inflight' = inflight (+) SetToBag({NewRecord(emp_id, name, email, role)})
            /\ UNCHANGED last
    /\ UNCHANGED <<employees, salaries>>

\* the document insert_one stores for new_record
EmployeeDoc(coll, rec) ==
    [_id |-> NewObjectId(coll),
     employeeId |-> rec.employeeId,
     name |-> rec.name,
     email |-> rec.email,
     designation |-> rec.designation,
     status |-> rec.status,
     joinedDate |-> rec.joinedDate]

\* an insert_one whose duplicate-key error is not recognised
RegisterInsertDatabaseError(rec) ==
    /\ rec \in Waiting("employee")
    /\ IF EmployeeDuplicateKey(employees, rec)
       THEN /\ last' = Response("register", FALSE, <<"Database error: ">>)
            /\ UNCHANGED employees
       ELSE /\ employees' = Append(employees, EmployeeDoc(employees, rec))
            /\ last' = Response("register", TRUE, MsgRegistered)
    /\ inflight' = inflight (-) SetToBag({rec})
    /\ UNCHANGED salaries

\* register_employee, second round trip: insert_one
RegisterInsert(rec) ==
    /\ rec \in Waiting("employee")
    /\ IF EmployeeDuplicateKey(employees, rec)
       THEN /\ last' = Response("register", FALSE, MsgDuplicateEmail)
            /\ UNCHANGED employees
       ELSE /\ employees' = Append(employees, EmployeeDoc(employees, rec))
            /\ last' = Response("register", TRUE, MsgRegistered)
    /\ inflight' = inflight (-) SetToBag({rec})
    /\ UNCHANGED salaries

\* an update that also rewrites the name on the employee's transactions
UpdateEmployeeRecordSyncsLedger(uid, name, email, role) ==
    /\ SessionFree
    /\ LET i == FindById(employees, ObjectId(uid)) IN
       IF ObjectId(uid) = 0
       THEN /\ last' = Response("update", FALSE, NoMsg)
            /\ UNCHANGED <<employees, salaries>>
       ELSE IF i = 0
       THEN /\ last' = Response("update", TRUE, NoMsg)
            /\ UNCHANGED <<employees, salaries>>
       ELSE IF UpdateDuplicateKey(employees, i, email)
       THEN /\ last' = Response("update", FALSE, NoMsg)
            /\ UNCHANGED <<employees, salaries>>
       ELSE /\ employees' = [employees EXCEPT
                                ![i] = SetDetails(@, name, email, role)]
            /\ salaries' = [k \in 1..Len(salaries) |->
                               IF salaries[k].employeeId = employees[i].employeeId
                               THEN [salaries[k] EXCEPT !.employeeName = name]
                               ELSE salaries[k]]
            /\ last' = Response("update", TRUE, NoMsg)
    /\ UNCHANGED inflight

\* an update_one with upsert: a key no document has creates a document
UpdateEmployeeRecordUpsert(uid, name, email, role) ==
    /\ SessionFree
    /\ LET i == FindById(employees, ObjectId(uid)) IN
       IF ObjectId(uid) = 0
       THEN /\ last' = Response("update", FALSE, NoMsg)
            /\ UNCHANGED employees
       ELSE IF UpdateDuplicateKey(employees, i, email)
       THEN /\ last' = Response("update", FALSE, NoMsg)
            /\ UNCHANGED employees
       ELSE IF i = 0
       THEN /\ employees' = Append(employees,
                                [_id |-> ObjectId(uid), employeeId |-> "",
                                 name |-> name, email |-> email,
                                 designation |-> role, status |-> "",
                                 joinedDate |-> Now])
            /\ last' = Response("update", TRUE, NoMsg)
       ELSE /\ employees' = [employees EXCEPT
                                ![i] = SetDetails(@, name, email, role)]
            /\ last' = Response("update", TRUE, NoMsg)
    /\ UNCHANGED <<salaries, inflight>>

\* update_employee_record: one update_one by _id
UpdateEmployeeRecord(uid, name, email, role) ==
    /\ SessionFree
    /\ LET i == FindById(employees, ObjectId(uid)) IN
       IF ObjectId(uid) = 0
       THEN /\ last' = Response("update", FALSE, NoMsg)
            /\ UNCHANGED employees
       ELSE IF i = 0
       THEN /\ last' = Response("update", TRUE, NoMsg)
            /\ UNCHANGED employees
       ELSE IF UpdateDuplicateKey(employees, i, email)
       THEN /\ last' = Response("update", FALSE, NoMsg)
            /\ UNCHANGED employees
       ELSE /\ employees' = [employees EXCEPT
                                ![i] = SetDetails(@, name, email, role)]
            /\ last' = Response("update", TRUE, NoMsg)
    /\ UNCHANGED <<salaries, inflight>>

\* archive_employee: one update_one by _id
ArchiveEmployee(uid) ==
    /\ SessionFree
    /\ IF ObjectId(uid) = 0
       THEN /\ last' = Response("archive", FALSE, NoMsg)
            /\ UNCHANGED employees
       ELSE /\ employees' = ArchiveDocs(employees, ObjectId(uid))
            /\ last' = Response("archive", TRUE, NoMsg)
    /\ UNCHANGED <<salaries, inflight>>

\* number of calls that hold a transaction to insert
PendingPays == BagCardinality([r \in Waiting("transaction") |-> inflight[r]])

\* the salaries collection stays within MaxSalaries: the call is one that
\* inserts nothing, or there is room for its transaction
HasRoom(emp_id, month) ==
    \/ FindOne(employees, emp_id) = 0
    \/ SalaryDuplicateKey(salaries, [employeeId |-> emp_id, month |-> month])
    \/ Len(salaries) + PendingPays < MaxSalaries

\* transaction of process_payroll_transaction, for the employee at position i
Transaction(i, emp_id, amount, month) ==
    [kind |-> "transaction",
     employeeId |-> emp_id,
     employeeName |-> employees[i].name,
     amount |-> Float(amount),
     month |-> month,
     processedDate |-> Now]

\* a lookup without the not-found return: the transaction gets no name
PayLookupAnyway(emp_id, amount, month) ==
    /\ SessionFree
    /\ Len(salaries) + PendingPays < MaxSalaries
    /\ LET i == FindOne(employees, emp_id) IN
       inflight' = inflight (+) SetToBag({
           [kind |-> "transaction",
            employeeId |-> emp_id,
            employeeName |-> IF i = 0 THEN "" ELSE employees[i].name,
            amount |-> Float(amount),
            month |-> month,
            processedDate |-> Now]})
    /\ UNCHANGED <<employees, salaries, last>>

\* process_payroll_transaction, first round trip: find_one and building
\* the transaction
PayLookup(emp_id, amount, month) ==
    /\ SessionFree
    /\ HasRoom(emp_id, month)
    /\ LET i == FindOne(employees, emp_id) IN
       IF i = 0
       THEN /\ last' = Response("pay", FALSE, MsgNotFound)
            /\ UNCHANGED inflight
       ELSE /\ inflight' = inflight (+) SetToBag({Transaction(i, emp_id, amount, month)})
            /\ UNCHANGED last
    /\ UNCHANGED <<employees, salaries>>

\* the document insert_one stores for transaction
SalaryDoc(coll, rec) ==
    [_id |-> NewObjectId(coll),
     employeeId |-> rec.employeeId,
     employeeName |-> rec.employeeName,
     amount |-> rec.amount,
     month |-> rec.month,
     processedDate |-> rec.processedDate]

\* an insert_one whose duplicate-key error is swallowed
PayInsertReportsSuccess(rec) ==
    /\ rec \in Waiting("transaction")
    /\ IF SalaryDuplicateKey(salaries, rec)
       THEN UNCHANGED salaries
       ELSE salaries' = Append(salaries, SalaryDoc(salaries, rec))
    /\ last' = Response("pay", TRUE, MsgProcessed)
    /\ inflight' = inflight (-) SetToBag({rec})
    /\ UNCHANGED employees

\* process_payroll_transaction, second round trip: insert_one
PayInsert(rec) ==
    /\ rec \in Waiting("transaction")
    /\ IF SalaryDuplicateKey(salaries, rec)
       THEN /\ last' = Response("pay", FALSE, MsgDuplicatePayment(rec.month))
            /\ UNCHANGED salaries
       ELSE /\ salaries' = Append(salaries, SalaryDoc(salaries, rec))
            /\ last' = Response("pay", TRUE, MsgProcessed)
    /\ inflight' = inflight (-) SetToBag({rec})
    /\ UNCHANGED employees

\* calls of concurrent sessions: the round trips of different calls interleave
Next ==
    \/ \E emp_id \in EmployeeIds, d \in SessionDetails, email \in Emails :
          RegisterCheck(emp_id, d.name, email, d.role)
    \/ \E rec \in BagToSet(inflight) : RegisterInsert(rec)
    \/ \E uid \in Uids, d \in SessionDetails, email \in Emails :
          UpdateEmployeeRecord(uid, d.name, email, d.role)
    \/ \E uid \in Uids : ArchiveEmployee(uid)
    \/ \E emp_id \in EmployeeIds, amount \in Amounts, month \in Months :
          PayLookup(emp_id, amount, month)
    \/ \E rec \in BagToSet(inflight) : PayInsert(rec)

Spec == Init /\ [][Next]_vars

\* serialized calls: a call starts only when no other call is under way
SerialNext ==
    \/ \E emp_id \in EmployeeIds, d \in Details, email \in Emails :
          Serialized /\ RegisterCheck(emp_id, d.name, email, d.role)
    \/ \E rec \in BagToSet(inflight) : RegisterInsert(rec)
    \/ \E uid \in Uids, d \in Details, email \in Emails :
          Serialized /\ UpdateEmployeeRecord(uid, d.name, email, d.role)
    \/ \E uid \in Uids : Serialized /\ ArchiveEmployee(uid)
    \/ \E emp_id \in EmployeeIds, amount \in Amounts, month \in Months :
          Serialized /\ PayLookup(emp_id, amount, month)
    \/ \E rec \in BagToSet(inflight) : PayInsert(rec)

SpecSerial == Init /\ [][SerialNext]_vars

\* ---------------------------------------------------------------- claims
\* what update_one leaves of a document when it sets name, email, designation
SameIdentity(d, e) ==
    /\ d._id = e._id
    /\ d.employeeId = e.employeeId
    /\ d.status = e.status
    /\ d.joinedDate = e.joinedDate

\* the documents of a collection
Docs(coll) == {coll[i] : i \in 1..Len(coll)}

\* C1: in every reachable state there is at most one employee document per
\* employeeId, whatever the interleaving of register_employee calls.
UniqueEmployeeId ==
    \A i, j \in 1..Len(employees) :
        employees[i].employeeId = employees[j].employeeId => i = j

\* C2: with serialized calls, a register_employee call whose employeeId is
\* that of an existing document (Active or Inactive) returns the failure
\* flag with a message and leaves the collections unchanged, so that no two
\* documents ever share an employeeId.
SerializedDuplicateIdRejected ==
    [][ /\ UniqueEmployeeId'
        /\ \A emp_id \in EmployeeIds :
              (\E i \in 1..Len(employees) : employees[i].employeeId = emp_id)
              => \A d \in Details, email \in Emails :
                    RegisterCheck(emp_id, d.name, email, d.role)
                    => /\ last' = Response("register", FALSE, MsgIdInUse)
                       /\ UNCHANGED <<employees, salaries, inflight>> ]_vars

\* C2 witness: a registration was turned down for the employeeId of the
\* only document, which is Inactive.
WitnessDuplicateIdRejected ==
    /\ last = Response("register", FALSE, MsgIdInUse)
    /\ inflight = EmptyBag
    /\ Len(employees) = 1
    /\ employees[1].status = "Inactive"

\* at most one employee document per email
UniqueEmail ==
    \A i, j \in 1..Len(employees) :
        employees[i].email = employees[j].email => i = j

\* C3: at most one employee document holds any given email; the insert of a
\* registration whose email is held by a document is rejected with the
\* duplicate-email failure and inserts nothing; an update to an email held
\* by a different document changes nothing.
EmailStaysUnique ==
    [][ /\ UniqueEmail'
        /\ \A rec \in Waiting("employee") :
              ( /\ \E i \in 1..Len(employees) : employees[i].email = rec.email
                /\ RegisterInsert(rec) )
              => /\ last' = Response("register", FALSE, MsgDuplicateEmail)
                 /\ UNCHANGED <<employees, salaries>>
        /\ \A uid \in Uids, email \in Emails :
              (\E i \in 1..Len(employees) :
                  employees[i].email = email /\ employees[i]._id # ObjectId(uid))
              => \A d \in Details :
                    UpdateEmployeeRecord(uid, d.name, email, d.role)
                    => UNCHANGED <<employees, salaries>> ]_vars

\* C3 witness: a registration under a fresh employeeId was turned down for
\* its email, held by the only document.
WitnessDuplicateEmailRejected ==
    /\ last = Response("register", FALSE, MsgDuplicateEmail)
    /\ Len(employees) = 1

\* at most one transaction per (employeeId, month)
UniquePayment ==
    \A i, j \in 1..Len(salaries) :
        ( /\ salaries[i].employeeId = salaries[j].employeeId
          /\ salaries[i].month = salaries[j].month ) => i = j

\* C4: at most one transaction per (employeeId, month) under any
\* interleaving of payment calls; the insert of a payment for a pair that
\* has a transaction fails and inserts nothing, any other insert succeeds
\* and adds exactly one transaction, for that pair.
OnePaymentPerMonth ==
    [][ /\ UniquePayment'
        /\ \A rec \in Waiting("transaction") :
              PayInsert(rec) =>
                 IF \E t \in Docs(salaries) :
                       t.employeeId = rec.employeeId /\ t.month = rec.month
                 THEN /\ ~last'.ok
                      /\ last'.msg = MsgDuplicatePayment(rec.month)
                      /\ UNCHANGED <<employees, salaries>>
                 ELSE /\ last' = Response("pay", TRUE, MsgProcessed)
                      /\ Len(salaries') = Len(salaries) + 1
                      /\ SubSeq(salaries', 1, Len(salaries)) = salaries
                      /\ salaries'[Len(salaries')].employeeId = rec.employeeId
                      /\ salaries'[Len(salaries')].month = rec.month ]_vars

\* C4 witness: one employee was paid for two different months and a further
\* payment was turned down as a duplicate.
WitnessTwoMonthsThenDuplicate ==
    /\ Len(salaries) = 2
    /\ salaries[1].employeeId = salaries[2].employeeId
    /\ salaries[1].month # salaries[2].month
    /\ last.op = "pay" /\ ~last.ok
    /\ last.msg = MsgDuplicatePayment(salaries[2].month)

\* C5: a payment call whose employeeId matches no employee document returns
\* the failure flag with the not-found message and leaves salaries and
\* employees unchanged.
UnknownEmployeeNotPaid ==
    [][ \A emp_id \in EmployeeIds :
           (\A i \in 1..Len(employees) : employees[i].employeeId # emp_id)
           => \A amount \in Amounts, month \in Months :
                 PayLookup(emp_id, amount, month)
                 => /\ last' = Response("pay", FALSE, MsgNotFound)
                    /\ UNCHANGED <<employees, salaries, inflight>> ]_vars

\* C5 witness: a payment was turned down as not found while another
\* employee was registered and nothing had been paid.
WitnessUnknownEmployee ==
    /\ last = Response("pay", FALSE, MsgNotFound)
    /\ Len(employees) = 1
    /\ salaries = <<>>

\* C6: a stored transaction is never changed or removed by a later
\* operation and fetch_payroll_history keeps returning it; the employeeName
\* it stores is the name the employee had when it was paid.
TransactionsFrozen ==
    [][ /\ Len(salaries') >= Len(salaries)
        /\ SubSeq(salaries', 1, Len(salaries)) = salaries
        /\ salaries' # salaries
           => \A m \in Months \cup {""} :
                 Docs(fetch_payroll_history(m)) \subseteq
                    Docs(fetch_payroll_history(m))'
        /\ \A rec \in Waiting("transaction") :
              (PayInsert(rec) /\ Len(salaries') > Len(salaries))
              => salaries'[Len(salaries')].employeeName =
                    employees[FindOne(employees, rec.employeeId)].name ]_vars

\* C6 witness: the only employee was renamed after being paid, and the
\* transaction still carries the former name.
WitnessRenamedAfterPayment ==
    /\ last = Response("update", TRUE, NoMsg)
    /\ Len(employees) = 1
    /\ Len(salaries) = 1
    /\ salaries[1].employeeId = employees[1].employeeId
    /\ salaries[1].employeeName = "Ann"
    /\ employees[1].name = "Bob"

\* C7: after archive_employee on an existing employee, the employee is
\* absent from fetch_employees(True) and present in fetch_employees(False)
\* with status Inactive; archiving it again leaves the state as it is.
ArchiveHidesAndIsIdempotent ==
    [][ \A uid \in Uids :
           ( /\ \E i \in 1..Len(employees) : employees[i]._id = ObjectId(uid)
             /\ ArchiveEmployee(uid) )
           => /\ \A e \in Docs(fetch_employees(TRUE))' : e._id # uid
              /\ \E e \in Docs(fetch_employees(FALSE))' :
                    e._id = uid /\ e.status = "Inactive"
              /\ ArchiveDocs(employees', ObjectId(uid)) = employees'
              /\ last' = Response("archive", TRUE, NoMsg)
              /\ UNCHANGED <<salaries, inflight>>
              /\ (\E e \in Docs(employees) :
                     e._id = ObjectId(uid) /\ e.status = "Inactive")
                 => UNCHANGED employees ]_vars

\* C7 witness: the only employee was archived: the active listing is empty
\* and the full listing shows it Inactive.
WitnessArchived ==
    /\ last = Response("archive", TRUE, NoMsg)
    /\ fetch_employees(TRUE) = <<>>
    /\ Len(fetch_employees(FALSE)) = 1
    /\ fetch_employees(FALSE)[1].status = "Inactive"

\* C8: every employee document is created Active, and a document that is
\* Inactive stays in the collection and stays Inactive.
StatusMonotone ==
    [][ /\ Len(employees') >= Len(employees)
        /\ \A i \in 1..Len(employees) :
              /\ employees'[i]._id = employees[i]._id
              /\ employees[i].status = "Inactive"
                 => employees'[i].status = "Inactive"
        /\ \A i \in (Len(employees) + 1)..Len(employees') :
              employees'[i].status = "Active" ]_vars

\* C8 witness: two employees are Inactive and an update of one of them has
\* just succeeded.
WitnessInactiveUpdated ==
    /\ last = Response("update", TRUE, NoMsg)
    /\ Len(employees) = 2
    /\ \A e \in Docs(employees) : e.status = "Inactive"

\* C9: a step in which update_employee_record returns leaves salaries, every other employee
\* document and the selected document's employeeId, status and joinedDate
\* unchanged, and sets the selected document's name, email and designation
\* or nothing; for a key no document has, it changes nothing, creates
\* nothing and reports success.
UpdateFrame ==
    [][ \A uid \in Uids, d \in Details, email \in Emails :
           (last'.op = "update" /\ UpdateEmployeeRecord(uid, d.name, email, d.role))
           => /\ UNCHANGED <<salaries, inflight>>
              /\ Len(employees') = Len(employees)
              /\ \A i \in 1..Len(employees) :
                    /\ SameIdentity(employees'[i], employees[i])
                    /\ employees[i]._id # ObjectId(uid)
                       => employees'[i] = employees[i]
                    /\ \/ employees'[i] = employees[i]
                       \/ /\ employees'[i].name = d.name
                          /\ employees'[i].email = email
                          /\ employees'[i].designation = d.role
              /\ ( /\ ObjectId(uid) # 0
                   /\ \A e \in Docs(employees) : e._id # ObjectId(uid) )
                 => /\ UNCHANGED employees
                    /\ last' = Response("update", TRUE, NoMsg) ]_vars

\* C9 witness: the first of two employees was given another name and
\* designation after the second one was registered.
WitnessUpdated ==
    /\ last = Response("update", TRUE, NoMsg)
    /\ Len(employees) = 2
    /\ employees[1].name = "Bob" /\ employees[1].designation = "ops"
    /\ employees[2].name = "Ann" /\ employees[2].designation = "dev"
    /\ \A e \in Docs(employees) : e.status = "Active"

\* C10: every transaction in salaries has the employeeId of at least one
\* document in employees.
LedgerReferencesEmployees ==
    \A t \in Docs(salaries) :
        \E e \in Docs(employees) : e.employeeId = t.employeeId

\* C10 witness: a payment succeeded for an employee that is Inactive.
WitnessInactivePaid ==
    /\ last = Response("pay", TRUE, MsgProcessed)
    /\ Len(employees) = 1
    /\ employees[1].status = "Inactive"
    /\ Len(salaries) = 1

====
